---- MODULE Spec2Model ----
(***************************************************************************)
(* Donation record server (Express + Mongoose): the Account and Donor      *)
(* stores, the per-client session, and every HTTP route as a handler that  *)
(* runs up to its next awaited store call, is suspended, and is resumed by *)
(* the store's reply.  Requests of several clients are in flight at once.  *)
(***************************************************************************)
EXTENDS Integers, Sequences, FiniteSets, TLC

\* ---------------------------------------------------------------- bounds
MaxDonationId == 3
MaxAccountId == 3

\* Requests in flight at once, and the clients (session cookies) that send them.
Slots == {1, 2}
Clients == {"c1", "c2"}

\* ---------------------------------------------------------------- values
\* Strings the code inspects character by character (trim, regular
\* expression match) are sequences of one-character strings.
Alice == <<"a", "l">>
Bob == <<"b", "o">>
Salts == {"s1", "s2"}

\* A password string: the text a client types, or a bcrypt digest of one.
Plain(p) == [digest |-> FALSE, salt |-> "", text |-> p]

\* bcrypt.hash(password, 10): a digest that embeds a random salt; it is never
\* the string that was hashed.
BcryptHash(p, salt) == [digest |-> TRUE, salt |-> salt, text |-> p.text]

\* String.prototype.trim
RECURSIVE TrimLeft(_)
TrimLeft(s) == IF s # <<>> /\ Head(s) = " " THEN TrimLeft(Tail(s)) ELSE s

RECURSIVE TrimRight(_)
TrimRight(s) ==
    IF s # <<>> /\ s[Len(s)] = " " THEN TrimRight(SubSeq(s, 1, Len(s) - 1)) ELSE s

Trim(s) == TrimRight(TrimLeft(s))

\* JavaScript truthiness of a request field: present and not the empty string.
Has(obj, k) == k \in DOMAIN obj
Truthy(obj, k) == Has(obj, k) /\ obj[k] # <<>>
TruthyWord(obj, k) == Has(obj, k) /\ obj[k] # ""

VARIABLES accounts, donors, session, req, nextDonationId, nextAccountId

vars == <<accounts, donors, session, req, nextDonationId, nextAccountId>>

\* ---------------------------------------------------------------- session
\* A session object is the set of the properties assigned to it.
NoSession == {}

SessionUser(sess) == {b[2] : b \in {x \in sess : x[1] = "user"}}

\* req.session.role
SessionRole(sess) ==
    IF \E b \in sess : b[1] = "role"
    THEN (CHOOSE b \in sess : b[1] = "role")[2]
    ELSE "undefined"

Idle == [pc |-> "idle"]

Done(r, status, extra) ==
    req' = [req EXCEPT ![r] = [pc |-> "done", op |-> req[r].op,
                               client |-> req[r].client, status |-> status,
                               out |-> extra]]

Handler(op, c, args, pc, local) ==
    [pc |-> pc, op |-> op, client |-> c, args |-> args, local |-> local]

Respond(r, op, c, args, status, extra) ==
    req' = [req EXCEPT ![r] = [pc |-> "done", op |-> op, client |-> c,
                               status |-> status, out |-> extra]]

Fault(r) ==
    req' = [req EXCEPT ![r] = [pc |-> "fault", op |-> req[r].op,
                               client |-> req[r].client]]

Suspend(r, pc, local) ==
    req' = [req EXCEPT ![r] = [req[r] EXCEPT !.pc = pc, !.local = local]]

\* ---------------------------------------------------------------- stores
Carol == <<"c", "y">>

\* The stores are filled outside this program (it has no route that creates a
\* donor, and none that creates the first account).  The administrator's
\* password is stored either as typed or as register would store it.
SeedAccounts(stored) ==
    << [id |-> 1, role |-> "admin", username |-> Alice, password |-> stored],
       [id |-> 2, role |-> "staff", username |-> Bob,
        password |-> BcryptHash(Plain("pw2"), "s2")] >>

Ann == <<"A", "n">>
Lyon == <<"L", "y">>
Paris == <<"P", "a">>

SeedDonors ==
    << [id |-> 1, name |-> Ann, city |-> Lyon,
        donations |-> << [id |-> 1, amount |-> 2, date |-> "2024-01-01"],
                         [id |-> 2, amount |-> 1, date |-> "2024-02-02"] >>],
       [id |-> 2, name |-> Bob, city |-> Paris, donations |-> <<>>] >>


\* Model.findOne({username}): the first document in storage order, if any.
FindOneByUsername(store, u) ==
    LET hits == SelectSeq(store, LAMBDA a : a.username = u)
    IN  IF hits = <<>> THEN {} ELSE {Head(hits)}

\* Model.findById(id)
FindById(store, id) ==
    {store[i] : i \in {j \in DOMAIN store : store[j].id = id}}

RemoveById(store, id) == SelectSeq(store, LAMBDA d : d.id # id)

ReplaceDoc(store, doc) ==
    [i \in DOMAIN store |-> IF store[i].id = doc.id THEN doc ELSE store[i]]

Init ==
    /\ \E stored \in {Plain("pw1"), BcryptHash(Plain("pw1"), "s1")} :
          accounts = SeedAccounts(stored)
    /\ donors = SeedDonors
    /\ session = [c \in Clients |-> NoSession]
    /\ req = [r \in Slots |-> Idle]
    /\ nextDonationId = 3
    /\ nextAccountId = 3

\* ------------------------------------------------- authentication routes
\* The caller's role as POST /api/register reads it.
CallerRole(sess) == SessionRole(sess)

\* POST /api/register, up to its first await.
Register(r, c, body) ==
    /\ req[r] = Idle
    /\ IF CallerRole(session[c]) # "admin"
       THEN Respond(r, "register", c, body, 403, [success |-> FALSE])
       ELSE IF ~Truthy(body, "username") \/ ~Has(body, "password")
               \/ ~TruthyWord(body, "role")
       THEN Respond(r, "register", c, body, 200, [success |-> FALSE])
       ELSE req' = [req EXCEPT ![r] =
                      Handler("register", c, body, "register_findOne", <<>>)]
    /\ UNCHANGED <<accounts, donors, session, nextDonationId, nextAccountId>>

\* POST /api/register resumed after Account.findOne: the existence check, then
\* bcrypt.hash and the construction of the new document.
RegisterFindOne(r, ok) ==
    /\ IF ~ok THEN Fault(r)
       ELSE IF FindOneByUsername(accounts, req[r].args.username) # {}
       THEN Done(r, 200, [success |-> FALSE])
       ELSE \E salt \in Salts :
              Suspend(r, "register_save",
                      [role |-> req[r].args.role,
                       username |-> req[r].args.username,
                       password |-> BcryptHash(req[r].args.password, salt)])
    /\ UNCHANGED <<accounts, donors, session, nextDonationId, nextAccountId>>

\* POST /api/register resumed after account.save().
RegisterSave(r, ok) ==
    IF ~ok
    THEN /\ Fault(r)
         /\ UNCHANGED <<accounts, donors, session, nextDonationId, nextAccountId>>
    ELSE /\ nextAccountId <= MaxAccountId
         /\ accounts' = Append(accounts,
                               [id |-> nextAccountId,
                                role |-> req[r].local.role,
                                username |-> req[r].local.username,
                                password |-> req[r].local.password])
         /\ nextAccountId' = nextAccountId + 1
         /\ Done(r, 200, [success |-> TRUE])
         /\ UNCHANGED <<donors, session, nextDonationId>>

\* account.password !== password, negated: the credential check of login.
PasswordAccepted(stored, supplied) == stored = supplied

\* POST /api/login, up to its await of Account.findOne.
Login(r, c, body) ==
    /\ req[r] = Idle
    /\ IF ~Has(body, "username")
       THEN \* username.trim() throws inside the try block
            Respond(r, "login", c, body, 500, [success |-> FALSE])
       ELSE req' = [req EXCEPT ![r] =
                      Handler("login", c, body, "login_findOne",
                              Trim(body.username))]
    /\ UNCHANGED <<accounts, donors, session, nextDonationId, nextAccountId>>

\* POST /api/login resumed after Account.findOne.
LoginFindOne(r, ok) ==
    LET found == FindOneByUsername(accounts, req[r].local)
    IN  /\ IF ~ok
           THEN Done(r, 500, [success |-> FALSE]) /\ UNCHANGED session
           ELSE IF found = {}
                   \/ \E a \in found :
                        ~PasswordAccepted(a.password, req[r].args.password)
           THEN Done(r, 401, [success |-> FALSE]) /\ UNCHANGED session
           ELSE \E a \in found :
                  LET user == [id |-> a.id, username |-> a.username,
                               role |-> a.role]
                  IN  /\ session' =
                           [session EXCEPT ![req[r].client] =
                              {b \in @ : b[1] # "user"} \cup {<<"user", user>>}]
                      /\ Done(r, 200, [success |-> TRUE, user |-> user])
        /\ UNCHANGED <<accounts, donors, nextDonationId, nextAccountId>>

\* A logout that answers without destroying the session.
DestroyedKeepsUser(sess) == sess

\* What req.session.destroy leaves of the session.
Destroyed(sess) == NoSession

\* POST /api/logout
Logout(r, c) ==
    /\ req[r] = Idle
    /\ session' = [session EXCEPT ![c] = Destroyed(@)]
    /\ Respond(r, "logout", c, <<>>, 200, [success |-> TRUE])
    /\ UNCHANGED <<accounts, donors, nextDonationId, nextAccountId>>

\* ---------------------------------------------------------- donor routes
\* A guard that lets every request through.
RequireLoginOpen(sess) == TRUE

\* requireLogin: whether the guard calls next().
RequireLogin(sess) == SessionUser(sess) # {}

DonorOps == {"listDonors", "deleteDonor", "addDonation", "updateDonation",
             "removeDonation"}

\* A donor/donation route behind app.use('/api/donors', requireLogin): the
\* guard answers 401, or the route runs up to its first store call.
Guarded(r, c, op, args, pc) ==
    /\ req[r] = Idle
    /\ IF RequireLogin(session[c])
       THEN req' = [req EXCEPT ![r] = Handler(op, c, args, pc, <<>>)]
       ELSE Respond(r, op, c, args, 401, [success |-> FALSE])
    /\ UNCHANGED <<accounts, donors, session, nextDonationId, nextAccountId>>

\* new RegExp(pattern, 'i').test(text) for a pattern of letters: a
\* case-insensitive match anywhere in the text.
Lower(ch) ==
    CASE ch = "A" -> "a" [] ch = "B" -> "b" [] ch = "L" -> "l"
      [] ch = "N" -> "n" [] ch = "P" -> "p" [] ch = "Y" -> "y"
      [] ch = "O" -> "o" [] OTHER -> ch

LowerSeq(s) == [i \in DOMAIN s |-> Lower(s[i])]

RegExpI(pattern, text) ==
    \E i \in 0..(Len(text) - Len(pattern)) :
        LowerSeq(SubSeq(text, i + 1, i + Len(pattern))) = LowerSeq(pattern)

\* { $sum: "$donations.amount" }
RECURSIVE SumAmounts(_)
SumAmounts(ds) == IF ds = <<>> THEN 0 ELSE Head(ds).amount + SumAmounts(Tail(ds))

\* parseFloat of a string of digits with possible trailing text: the number its
\* leading digits spell, or NaN when it has none.
NaN == [nan |-> TRUE, n |-> 0]
Num(n) == [nan |-> FALSE, n |-> n]
Digit(ch) ==
    CASE ch = "0" -> 0 [] ch = "1" -> 1 [] ch = "2" -> 2 [] ch = "3" -> 3
      [] ch = "4" -> 4 [] ch = "5" -> 5 [] OTHER -> -1

RECURSIVE ParseDigits(_, _)
ParseDigits(s, acc) ==
    IF s = <<>> \/ Digit(Head(s)) < 0 THEN acc
    ELSE ParseDigits(Tail(s), 10 * acc + Digit(Head(s)))

ParseFloat(s) ==
    IF s = <<>> \/ Digit(Head(s)) < 0 THEN NaN ELSE Num(ParseDigits(s, 0))

\* $gte / $lte against a parsed bound: a NaN bound matches no number.
Gte(total, bound) == ~bound.nan /\ total >= bound.n
Lte(total, bound) == ~bound.nan /\ total <= bound.n

\* The second $match stage's condition on totalDonation.  The stage's object is
\* built by spreading the minTotal entry and then the maxTotal entry, both under
\* the key totalDonation: the later entry replaces the earlier one.
EmptyObject == [k \in {} |-> NaN]

\* { ...a, ...b }: the entries of a, then those of b over them.
Spread(a, b) ==
    [k \in DOMAIN a \cup DOMAIN b |-> IF k \in DOMAIN b THEN b[k] ELSE a[k]]

MinEntry(q) ==
    IF Truthy(q, "minTotal")
    THEN [totalDonation |-> [op |-> "$gte", bound |-> ParseFloat(q.minTotal)]]
    ELSE EmptyObject

MaxEntry(q) ==
    IF Truthy(q, "maxTotal")
    THEN [totalDonation |-> [op |-> "$lte", bound |-> ParseFloat(q.maxTotal)]]
    ELSE EmptyObject

\* The $match object of the total filter.
TotalStage(q) == Spread(MinEntry(q), MaxEntry(q))

\* Whether a donor with this total passes the total filter (the stage is in the
\* pipeline only when minTotal or maxTotal is given).
TotalMatch(q, total) ==
    LET stage == TotalStage(q)
    IN  (Truthy(q, "minTotal") \/ Truthy(q, "maxTotal")) =>
          \A k \in DOMAIN stage :
             IF stage[k].op = "$gte" THEN Gte(total, stage[k].bound)
             ELSE Lte(total, stage[k].bound)

\* The first $match stage: the name / city filter.
FilterMatch(q, d) ==
    /\ Truthy(q, "name") => RegExpI(q.name, d.name)
    /\ Truthy(q, "city") => RegExpI(q.city, d.city)

WithTotal(d) ==
    [id |-> d.id, name |-> d.name, city |-> d.city, donations |-> d.donations,
     totalDonation |-> SumAmounts(d.donations)]

\* $sort on totalDonation, ascending unless sortOrder is 'desc'.
SortStage(q, rows) ==
    IF ~TruthyWord(q, "sortBy") THEN rows
    ELSE IF Has(q, "sortOrder") /\ q.sortOrder = "desc"
    THEN SortSeq(rows, LAMBDA a, b : a.totalDonation > b.totalDonation)
    ELSE SortSeq(rows, LAMBDA a, b : a.totalDonation < b.totalDonation)

\* Donor.aggregate([...]) of GET /api/donors
Aggregate(q, store) ==
    LET matched == SelectSeq(store, LAMBDA d : FilterMatch(q, d))
        totals == [i \in DOMAIN matched |-> WithTotal(matched[i])]
        kept == SelectSeq(totals, LAMBDA d : TotalMatch(q, d.totalDonation))
    IN  SortStage(q, kept)

\* GET /api/donors
ListDonors(r, c, q) == Guarded(r, c, "listDonors", q, "listDonors_aggregate")

ListDonorsAggregate(r, ok) ==
    /\ IF ok
       THEN Done(r, 200, [success |-> TRUE,
                          donors |-> Aggregate(req[r].args, donors)])
       ELSE Done(r, 500, [success |-> FALSE])
    /\ UNCHANGED <<accounts, donors, session, nextDonationId, nextAccountId>>

\* DELETE /api/donors/:id
DeleteDonor(r, c, id) ==
    Guarded(r, c, "deleteDonor", [id |-> id], "deleteDonor_findByIdAndDelete")

DeleteDonorFindByIdAndDelete(r, ok) ==
    /\ IF ~ok
       THEN Done(r, 500, [success |-> FALSE]) /\ UNCHANGED donors
       ELSE IF FindById(donors, req[r].args.id) = {}
       THEN Done(r, 404, [success |-> FALSE]) /\ UNCHANGED donors
       ELSE /\ donors' = RemoveById(donors, req[r].args.id)
            /\ Done(r, 200, [success |-> TRUE])
    /\ UNCHANGED <<accounts, session, nextDonationId, nextAccountId>>

\* A save that answers without writing the document.
SaveDonorUnwritten(r, ok) ==
    /\ IF ok THEN Done(r, 200, [success |-> TRUE, donor |-> req[r].local])
       ELSE Fault(r)
    /\ UNCHANGED <<accounts, donors, session, nextDonationId, nextAccountId>>

\* donor.save() of a loaded document: the document is written back; a donor
\* deleted since the load is not created again (the write is rejected or has no
\* effect, depending on the ORM's version).
SaveDonor(r, ok) ==
    /\ IF ~ok
       THEN Fault(r) /\ UNCHANGED donors
       ELSE IF FindById(donors, req[r].local.id) = {}
       THEN /\ Fault(r) \/ Done(r, 200, [success |-> TRUE, donor |-> req[r].local])
            /\ UNCHANGED donors
       ELSE /\ donors' = ReplaceDoc(donors, req[r].local)
            /\ Done(r, 200, [success |-> TRUE, donor |-> req[r].local])
    /\ UNCHANGED <<accounts, session, nextDonationId, nextAccountId>>

\* POST /api/donors/:id/donations
AddDonation(r, c, id, amount, date) ==
    Guarded(r, c, "addDonation", [id |-> id, amount |-> amount, date |-> date],
            "addDonation_findById")

\* A push that puts the new donation first.
PushFront(donations, id, amount, date) ==
    <<[id |-> id, amount |-> amount, date |-> date]>> \o donations

\* donor.donations.push({amount, date}): the new subdocument gets a fresh _id.
Push(donations, id, amount, date) ==
    Append(donations, [id |-> id, amount |-> amount, date |-> date])

AddDonationFindById(r, ok) ==
    LET found == FindById(donors, req[r].args.id)
    IN  IF ~ok
        THEN /\ Fault(r)
             /\ UNCHANGED <<accounts, donors, session, nextDonationId, nextAccountId>>
        ELSE IF found = {}
        THEN /\ Done(r, 404, [success |-> FALSE])
             /\ UNCHANGED <<accounts, donors, session, nextDonationId, nextAccountId>>
        ELSE /\ nextDonationId <= MaxDonationId
             /\ \E d \in found :
                  Suspend(r, "addDonation_save",
                          [d EXCEPT !.donations =
                             Push(@, nextDonationId, req[r].args.amount,
                                  req[r].args.date)])
             /\ nextDonationId' = nextDonationId + 1
             /\ UNCHANGED <<accounts, donors, session, nextAccountId>>

\* value ?? fallback for a body field
Coalesce(body, k, fallback) == IF Has(body, k) THEN body[k] ELSE fallback

\* PUT /api/donors/:donorId/donations/:donationId
UpdateDonation(r, c, donorId, donationId, body) ==
    Guarded(r, c, "updateDonation",
            [id |-> donorId, donationId |-> donationId, body |-> body],
            "updateDonation_findById")

UpdateDonationFindById(r, ok) ==
    LET found == FindById(donors, req[r].args.id)
        body == req[r].args.body
    IN  /\ IF ~ok THEN Fault(r)
           ELSE IF found = {} THEN Done(r, 404, [success |-> FALSE])
           ELSE \E d \in found :
                  IF FindById(d.donations, req[r].args.donationId) = {}
                  THEN Done(r, 404, [success |-> FALSE])
                  ELSE Suspend(r, "updateDonation_save",
                         [d EXCEPT !.donations =
                            [i \in DOMAIN @ |->
                               IF @[i].id = req[r].args.donationId
                               THEN [id |-> @[i].id,
                                     amount |-> Coalesce(body, "amount", @[i].amount),
                                     date |-> Coalesce(body, "date", @[i].date)]
                               ELSE @[i]]])
        /\ UNCHANGED <<accounts, donors, session, nextDonationId, nextAccountId>>

\* DELETE /api/donors/:donorId/donations/:donationId
RemoveDonation(r, c, donorId, donationId) ==
    Guarded(r, c, "removeDonation", [id |-> donorId, donationId |-> donationId],
            "removeDonation_findById")

RemoveDonationFindById(r, ok) ==
    LET found == FindById(donors, req[r].args.id)
    IN  /\ IF ~ok THEN Fault(r)
           ELSE IF found = {} THEN Done(r, 404, [success |-> FALSE])
           ELSE \E d \in found :
                  Suspend(r, "removeDonation_save",
                          [d EXCEPT !.donations =
                             SelectSeq(@, LAMBDA x : x.id # req[r].args.donationId)])
        /\ UNCHANGED <<accounts, donors, session, nextDonationId, nextAccountId>>

\* -------------------------------------------------------- account routes
AccountOps == {"listAccounts", "updateAccount", "deleteAccount"}

\* A route registered with no middleware before it.
Unguarded(r, c, op, args, pc) ==
    /\ req[r] = Idle
    /\ req' = [req EXCEPT ![r] = Handler(op, c, args, pc, <<>>)]
    /\ UNCHANGED <<accounts, donors, session, nextDonationId, nextAccountId>>

\* GET /api/accounts
ListAccounts(r, c) == Unguarded(r, c, "listAccounts", <<>>, "listAccounts_find")

\* .select('-password')
WithoutPassword(a) == [id |-> a.id, role |-> a.role, username |-> a.username]

ListAccountsFind(r, ok) ==
    /\ IF ok
       THEN Done(r, 200, [i \in DOMAIN accounts |-> WithoutPassword(accounts[i])])
       ELSE Fault(r)
    /\ UNCHANGED <<accounts, donors, session, nextDonationId, nextAccountId>>

\* PUT /api/accounts/:id
UpdateAccount(r, c, id, body) ==
    Unguarded(r, c, "updateAccount", [id |-> id, body |-> body],
                 "updateAccount_findByIdAndUpdate")

UpdateAccountFindByIdAndUpdate(r, ok) ==
    LET body == req[r].args.body
    IN  /\ IF ~ok
           THEN Fault(r) /\ UNCHANGED accounts
           ELSE /\ accounts' =
                     [i \in DOMAIN accounts |->
                        IF accounts[i].id = req[r].args.id
                        THEN [accounts[i] EXCEPT
                                !.username = Coalesce(body, "username", @),
                                !.role = Coalesce(body, "role", @)]
                        ELSE accounts[i]]
                /\ Done(r, 200, [success |-> TRUE])
        /\ UNCHANGED <<donors, session, nextDonationId, nextAccountId>>

\* DELETE /api/accounts/:id
DeleteAccount(r, c, id) ==
    Unguarded(r, c, "deleteAccount", [id |-> id], "deleteAccount_findByIdAndDelete")

DeleteAccountFindByIdAndDelete(r, ok) ==
    /\ IF ~ok
       THEN Fault(r) /\ UNCHANGED accounts
       ELSE accounts' = RemoveById(accounts, req[r].args.id)
            /\ Done(r, 200, [success |-> TRUE])
    /\ UNCHANGED <<donors, session, nextDonationId, nextAccountId>>

\* ------------------------------------------------------------ scheduling
\* The store's reply to the call a handler awaits (ok: fulfilled or rejected)
\* resumes the handler, which runs to its next await or to its response.
StoreReply(r, ok) ==
    CASE req[r].pc = "register_findOne" -> RegisterFindOne(r, ok)
      [] req[r].pc = "register_save" -> RegisterSave(r, ok)
      [] req[r].pc = "login_findOne" -> LoginFindOne(r, ok)
      [] req[r].pc = "listDonors_aggregate" -> ListDonorsAggregate(r, ok)
      [] req[r].pc = "deleteDonor_findByIdAndDelete" ->
            DeleteDonorFindByIdAndDelete(r, ok)
      [] req[r].pc = "addDonation_findById" -> AddDonationFindById(r, ok)
      [] req[r].pc = "updateDonation_findById" -> UpdateDonationFindById(r, ok)
      [] req[r].pc = "removeDonation_findById" -> RemoveDonationFindById(r, ok)
      [] req[r].pc \in {"addDonation_save", "updateDonation_save",
                        "removeDonation_save"} -> SaveDonor(r, ok)
      [] req[r].pc = "listAccounts_find" -> ListAccountsFind(r, ok)
      [] req[r].pc = "updateAccount_findByIdAndUpdate" ->
            UpdateAccountFindByIdAndUpdate(r, ok)
      [] req[r].pc = "deleteAccount_findByIdAndDelete" ->
            DeleteAccountFindByIdAndDelete(r, ok)
      [] OTHER -> FALSE

\* The client has its answer (or its connection is dropped after a fault) and
\* the slot is free for another request.
Finish(r) ==
    /\ req[r].pc \in {"done", "fault"}
    /\ req' = [req EXCEPT ![r] = Idle]
    /\ UNCHANGED <<accounts, donors, session, nextDonationId, nextAccountId>>

\* ------------------------------------------------------- specifications
\* Each specification runs the handlers above over one part of the interface,
\* with requests drawn from the sets below; the stores start as seeded.

LoginBodies ==
    { [username |-> u, password |-> p] :
        u \in {Alice, <<" ">> \o Alice \o <<" ">>, Carol},
        p \in {Plain("pw1"), BcryptHash(Plain("pw1"), "s1")} }
    \cup { [password |-> Plain("pw1")] }

RegisterBodies ==
    { [role |-> "staff", username |-> Carol, password |-> Plain("pw1")],
      [role |-> "staff", username |-> Alice, password |-> Plain("pw2")],
      [role |-> "staff", username |-> Carol] }

AccountBodies == { [role |-> "admin"], [username |-> Alice] }

AuthRequest(r, c) ==
    \/ \E body \in RegisterBodies : Register(r, c, body)
    \/ \E body \in LoginBodies : Login(r, c, body)
    \/ Logout(r, c)

AccountRequest(r, c) ==
    \/ ListAccounts(r, c)
    \/ \E id \in {1, 2}, body \in AccountBodies : UpdateAccount(r, c, id, body)
    \/ \E id \in {1, 2} : DeleteAccount(r, c, id)

\* Authentication and account management, with one guarded route.
Next ==
    \E r \in Slots :
       \/ \E c \in Clients :
             \/ AuthRequest(r, c)
             \/ AccountRequest(r, c)
             \/ ListDonors(r, c, EmptyObject)
       \/ \E ok \in BOOLEAN : StoreReply(r, ok)
       \/ Finish(r)

Spec == Init /\ [][Next]_vars

\* The donor and donation routes, with login and logout.
AdminLogin == [username |-> Alice, password |-> Plain("pw1")]

NewDonations == { <<1, "2024-01-01">>, <<2, "2024-02-02">> }

UpdateBodies == { [amount |-> 3], [date |-> "2024-03-03"] }

DonorRequest(r, c) ==
    \/ ListDonors(r, c, [minTotal |-> <<"4">>])
    \/ DeleteDonor(r, c, 1)
    \/ \E id \in {1, 3}, n \in NewDonations : AddDonation(r, c, id, n[1], n[2])
    \/ \E did \in {1, 9}, body \in UpdateBodies : UpdateDonation(r, c, 1, did, body)
    \/ RemoveDonation(r, c, 1, 2)

\* Client c1 logs in and out and uses every donor route; client c2 never logs in.
NextDonations ==
    \E r \in Slots :
       \/ Login(r, "c1", AdminLogin)
       \/ Logout(r, "c1")
       \/ DonorRequest(r, "c1")
       \/ DeleteDonor(r, "c2", 1)
       \/ \E ok \in BOOLEAN : StoreReply(r, ok)
       \/ Finish(r)

SpecDonations == Init /\ [][NextDonations]_vars

\* The donor query over varied filters, one request at a time.
ListQueries ==
    { [k \in K |-> CASE k = "name" -> <<"N">>
                     [] k = "city" -> <<"p", "A">>
                     [] k = "minTotal" -> lo
                     [] k = "maxTotal" -> hi
                     [] k = "sortBy" -> "totalDonation"
                     [] OTHER -> "desc"] :
        K \in SUBSET {"name", "city", "minTotal", "maxTotal", "sortBy", "sortOrder"},
        lo \in {<<"1">>, <<"4">>, <<"x">>},
        hi \in {<<"2">>, <<"5">>, <<"3", "x">>} }

NextQuery ==
    \/ Login(1, "c1", AdminLogin)
    \/ \E q \in ListQueries : ListDonors(1, "c1", q)
    \/ \E id \in {1, 2}, n \in NewDonations : AddDonation(1, "c1", id, n[1], n[2])
    \/ \E ok \in BOOLEAN : StoreReply(1, ok)
    \/ Finish(1)

SpecQuery == Init /\ [][NextQuery]_vars

\* ------------------------------------------------------------- properties
\* Slot r takes a new request of one of the routes ops.
Entry(r, ops) == req[r] = Idle /\ req'[r] # Idle /\ req'[r].op \in ops

\* The handler in slot r is resumed at pc and answers with status.
Answers(r, pc, status) ==
    req[r].pc = pc /\ req'[r].pc = "done" /\ req'[r].status = status

Range(f) == {f[i] : i \in DOMAIN f}

\* The role login recorded for the session, "none" without a logged-in user.
LoginRole(sess) ==
    IF SessionUser(sess) = {} THEN "none"
    ELSE (CHOOSE u \in SessionUser(sess) : TRUE).role

\* C1: a register request is refused with 403 exactly when the role that login
\* recorded in the caller's session is not "admin"; an admin's request with all
\* fields is taken on to the existence check.
C1_RegisterRefusedIffNotAdmin ==
    [][\A r \in Slots :
         Entry(r, {"register"}) =>
           ((req'[r].pc = "done" /\ req'[r].status = 403)
              <=> LoginRole(session[req'[r].client]) # "admin")]_vars

\* The hash comparison of a typed password with a stored digest.
BcryptCompare(p, stored) == stored.digest /\ ~p.digest /\ stored.text = p.text

\* C2: login accepts exactly the passwords whose hash comparison with the stored
\* digest succeeds: then it answers 200 with {id, username, role} and records the
\* triple in the session; otherwise it answers 401 and the session keeps no user.
C2_LoginByHashComparison ==
    [][\A r \in Slots :
         (req[r].pc = "login_findOne" /\ req'[r].pc = "done"
            /\ req'[r].status # 500) =>
           LET c == req[r].client
               found == FindOneByUsername(accounts, Trim(req[r].args.username))
           IN  IF \E a \in found : BcryptCompare(req[r].args.password, a.password)
               THEN \E a \in found :
                      LET user == [id |-> a.id, username |-> a.username,
                                   role |-> a.role]
                      IN  /\ req'[r].status = 200
                          /\ req'[r].out.user = user
                          /\ SessionUser(session'[c]) = {user}
               ELSE /\ req'[r].status = 401
                    /\ session'[c] = session[c]]_vars

\* The first store call of each donor route.
FirstCall(op) ==
    CASE op = "listDonors" -> "listDonors_aggregate"
      [] op = "deleteDonor" -> "deleteDonor_findByIdAndDelete"
      [] op = "addDonation" -> "addDonation_findById"
      [] op = "updateDonation" -> "updateDonation_findById"
      [] OTHER -> "removeDonation_findById"

\* C3: a request to a donor/donation route whose session holds no user is
\* answered 401 and changes no donor; with a session user the request reaches
\* the route's first store call.
C3_GuardOnDonorRoutes ==
    [][\A r \in Slots :
         Entry(r, DonorOps) =>
           IF SessionUser(session[req'[r].client]) = {}
           THEN req'[r].pc = "done" /\ req'[r].status = 401 /\ donors' = donors
           ELSE req'[r].pc = FirstCall(req'[r].op) /\ donors' = donors]_vars

\* A request without a session user was answered 401 while a request of the same
\* client, sent after its login, waits for its first store call.
C3_Witness ==
    /\ req[1].pc = "done" /\ req[1].op = "removeDonation" /\ req[1].status = 401
    /\ req[2].pc = "updateDonation_findById"
    /\ req[2].client = req[1].client

\* C4: an account management request whose session holds no user is answered
\* 401 and goes no further.
C4_AccountsRequireSession ==
    [][\A r \in Slots :
         (Entry(r, AccountOps) /\ SessionUser(session[req'[r].client]) = {}) =>
           (req'[r].pc = "done" /\ req'[r].status = 401)]_vars

\* C5: logout always answers 200 and leaves the session without a user; a
\* protected request on a session without a user is answered 401; and a session
\* without a user gets one only by a login that answers 200.
C5_LogoutEndsSession ==
    [][/\ \A r \in Slots :
            /\ Entry(r, {"logout"}) =>
                 /\ req'[r].pc = "done" /\ req'[r].status = 200
                 /\ SessionUser(session'[req'[r].client]) = {}
            /\ (Entry(r, DonorOps) /\ SessionUser(session[req'[r].client]) = {}) =>
                 (req'[r].pc = "done" /\ req'[r].status = 401)
       /\ \A c \in Clients :
            (SessionUser(session[c]) = {} /\ SessionUser(session'[c]) # {}) =>
              \E r \in Slots :
                 Answers(r, "login_findOne", 200) /\ req[r].client = c]_vars

\* The login was answered 200, the session has since been destroyed, and the
\* protected request that followed was answered 401.
C5_Witness ==
    /\ req[1].pc = "done" /\ req[1].op = "login" /\ req[1].status = 200
    /\ session[req[1].client] = NoSession
    /\ req[2].pc = "done" /\ req[2].op = "listDonors" /\ req[2].status = 401
    /\ req[2].client = req[1].client

\* C6 rests on the part of register behind the role check, which no request
\* reaches: no register handler ever awaits the existence check or the insert.
RegisterNeverPastRoleCheck ==
    \A r \in Slots : req[r].pc \notin {"register_findOne", "register_save"}

\* The bounds of a query as the interface states them: every bound given holds.
WithinEveryBound(q, total) ==
    /\ Truthy(q, "minTotal") => Gte(total, ParseFloat(q.minTotal))
    /\ Truthy(q, "maxTotal") => Lte(total, ParseFloat(q.maxTotal))

\* C7: the donors listed are exactly the stored donors that match the name/city
\* filter and whose total lies within every bound given, each with its total.
C7_ListWithinEveryBound ==
    [][\A r \in Slots :
         Answers(r, "listDonors_aggregate", 200) =>
           Range(req'[r].out.donors) =
             { WithTotal(donors[i]) :
                 i \in { j \in DOMAIN donors :
                           /\ FilterMatch(req[r].args, donors[j])
                           /\ WithinEveryBound(req[r].args,
                                               SumAmounts(donors[j].donations)) } }]_vars

Last(s) == s[Len(s)]

\* C8: addDonation on a stored donor with n donations builds a donor with n+1
\* donations, the first n as loaded and the last with the given amount and date
\* and an identifier no other donation of the donor has; its save stores that
\* entry last and the answer carries the donor built; on a missing donor the
\* answer is 404 and no donor changes.
C8_AddDonationAppends ==
    [][\A r \in Slots :
         /\ (req[r].pc = "addDonation_findById" /\ req'[r].pc # "fault"
               /\ req'[r] # req[r]) =>
              LET before == FindById(donors, req[r].args.id)
              IN  IF before = {}
                  THEN req'[r].pc = "done" /\ req'[r].status = 404
                       /\ donors' = donors
                  ELSE \E d \in before :
                         LET n == Len(d.donations)
                             built == req'[r].local.donations
                         IN  /\ req'[r].pc = "addDonation_save"
                             /\ Len(built) = n + 1
                             /\ SubSeq(built, 1, n) = d.donations
                             /\ Last(built).amount = req[r].args.amount
                             /\ Last(built).date = req[r].args.date
                             /\ \A i \in 1..n : built[i].id # Last(built).id
         /\ (Answers(r, "addDonation_save", 200)
               /\ FindById(donors, req[r].local.id) # {}) =>
              /\ req'[r].out.donor = req[r].local
              /\ \E d \in FindById(donors', req[r].local.id) :
                    /\ Last(d.donations) = Last(req[r].local.donations)
                    /\ \A i \in 1..(Len(d.donations) - 1) :
                          d.donations[i].id # Last(d.donations).id]_vars

\* An addDonation was answered 200 and donor 1 has a third donation, stored last
\* under a new identifier.
C8_Witness ==
    /\ \E r \in Slots : req[r].pc = "done" /\ req[r].op = "addDonation"
                        /\ req[r].status = 200
    /\ \E d \in FindById(donors, 1) :
          Len(d.donations) = 3 /\ d.donations[3].id = 3 /\ d.donations[3].amount = 2

\* C9: no request ends in an unhandled fault: each is answered.
C9_EveryFailureAnswered == \A r \in Slots : req[r].pc # "fault"

SavePcs == {"addDonation_save", "updateDonation_save", "removeDonation_save"}

====
